---------------------------- MODULE Spec2Model ----------------------------
(***************************************************************************)
(* A model of the URL shortener of src/main.py: the short-code sequence    *)
(* generator (next_short_string), the URL admission pipeline of main_page, *)
(* and the three request handlers over the record store.                   *)
(*                                                                         *)
(* Text is modelled as a sequence of one-character strings, so that the    *)
(* character-level code (find, slicing, the `in` substring test) is        *)
(* modelled by what it does.                                               *)
(***************************************************************************)
EXTENDS Integers, Sequences, FiniteSets, TLC

VARIABLES
    gen_input,      \* next_short_string: the prev_string of the first call
    gen_protected,  \* next_short_string: the protected argument
    gen_prev,       \* the prev_string of the coming call
    gen_issued,     \* the strings returned so far, in order
    adm,            \* main_page's validation block, stage by stage
    adm_fetch,      \* what requests.get(long_url) will do
    adm_wot,        \* what the Web of Trust request will do
    table,          \* the rows of DB_TABLE, in id order
    resp,           \* the outcome of the last request handled serially
    cursor,         \* the module-level cursor's pending result set
    procs           \* the requests in flight, one per worker

genVars   == <<gen_input, gen_protected, gen_prev, gen_issued>>
admVars   == <<adm, adm_fetch, adm_wot>>
storeVars == <<table, resp>>
concVars  == <<cursor, procs>>
vars      == <<gen_input, gen_protected, gen_prev, gen_issued,
               adm, adm_fetch, adm_wot, table, resp, cursor, procs>>

-----------------------------------------------------------------------------
(* Bounds of the model *)

MaxCodeLen == 3     \* probe codes have at most this many symbols
MaxReserved == 2    \* reserved sets have at most this many codes
MaxIssued == 3      \* successive generations followed from one input
MaxRecords == 3     \* rows the table holds at most
MaxHits == 2        \* redirects counted per row at most
NumWorkers == 2     \* requests in flight at once

-----------------------------------------------------------------------------
(* Python values *)

\* Python's None, told apart from every text: its one element is no character
None == <<"None">>

\* the truth value Python gives a text or None (`if not prev_string`)
Truthy(x) == x # None /\ x # <<>>

\* F applied to the value of v (v is evaluated once, then bound)
Eval(v, F(_)) == CHOOSE r \in { F(x) : x \in {v} } : TRUE

\* s.find(sub): the 0-based index of the first occurrence of sub, or -1
find(s, sub) ==
    LET hits == {i \in 1..(Len(s) - Len(sub) + 1) :
                    SubSeq(s, i, i + Len(sub) - 1) = sub}
    IN  IF hits = {} THEN -1
        ELSE (CHOOSE i \in hits : \A j \in hits : i <= j) - 1

\* sub in s
Contains(s, sub) == find(s, sub) # -1

-----------------------------------------------------------------------------
(* INIT BLOCK, main.py 280-290 *)

ascii_lowercase ==
    <<"a","b","c","d","e","f","g","h","i","j","k","l","m",
      "n","o","p","q","r","s","t","u","v","w","x","y","z">>
ascii_uppercase ==
    <<"A","B","C","D","E","F","G","H","I","J","K","L","M",
      "N","O","P","Q","R","S","T","U","V","W","X","Y","Z">>
digits == <<"0","1","2","3","4","5","6","7","8","9">>

allowed_characters == ascii_lowercase \o ascii_uppercase \o digits
maxchar_limit == Len(allowed_characters)

protected_paths == { <<"r","e","v","e","r","s","e">> }

unwanted_WOT_codes == {101, 103, 104, 105, 203, 204, 205, 206}

unwanted_WOT_categories(code) ==
    CASE code = 101 -> <<"M","a","l","w","a","r","e"," ","o","r"," ","v","i","r","u","s","e","s">>
      [] code = 103 -> <<"P","h","i","s","h","i","n","g"," ","a","t","t","e","m","p","t","s">>
      [] code = 104 -> <<"S","c","a","m","s">>
      [] code = 105 -> <<"P","o","t","e","n","t","i","a","l","l","y"," ","i","l","l","e","g","a","l"," ","e","l","e","m","e","n","t","s">>
      [] code = 203 -> <<"S","u","s","p","i","c","i","o","u","s"," ","e","l","e","m","e","n","t","s">>
      [] code = 204 -> <<"H","a","t","e",","," ","d","i","s","c","r","i","m","i","n","a","t","i","o","n">>
      [] code = 205 -> <<"S","p","a","m">>
      [] code = 206 -> <<"P","o","t","e","n","t","i","a","l","l","y"," ","u","n","w","a","n","t","e","d"," ","p","r","o","g","r","a","m","s">>

-----------------------------------------------------------------------------
(* Text helpers: the Python built-ins the code calls *)

\* str(n) of a non-negative integer
RECURSIVE str_int(_)
str_int(n) ==
    IF n < 10 THEN <<digits[n + 1]>>
    ELSE str_int(n \div 10) \o <<digits[(n % 10) + 1]>>

IsDigits(s) == s # <<>> /\ \A i \in 1..Len(s) : Contains(digits, <<s[i]>>)

\* int(s) of a text of decimal digits
RECURSIVE int_str(_)
int_str(s) ==
    IF Len(s) = 0 THEN 0
    ELSE 10 * int_str(SubSeq(s, 1, Len(s) - 1)) + find(digits, <<s[Len(s)]>>)

\* s.lower()
lower(s) ==
    [i \in 1..Len(s) |->
        IF Contains(ascii_uppercase, <<s[i]>>)
        THEN ascii_lowercase[find(ascii_uppercase, <<s[i]>>) + 1]
        ELSE s[i]]

\* sep.join(list)
RECURSIVE join(_, _)
join(sep, list) ==
    IF Len(list) = 0 THEN <<>>
    ELSE IF Len(list) = 1 THEN list[1]
    ELSE list[1] \o sep \o join(sep, Tail(list))

\* characters above the 7-bit range, each written as its code point
NonAscii == {"U+00E9", "U+00A0"}

\* what strip() removes from both ends of a unicode text
Whitespace == {" ", "\t", "\n", "\r", "\f", "U+00A0"}

RECURSIVE lstrip(_)
lstrip(s) == IF s # <<>> /\ s[1] \in Whitespace THEN lstrip(Tail(s)) ELSE s

RECURSIVE rstrip(_)
rstrip(s) ==
    IF s # <<>> /\ s[Len(s)] \in Whitespace
    THEN rstrip(SubSeq(s, 1, Len(s) - 1)) ELSE s

strip(s) == rstrip(lstrip(s))

\* string.punctuation (the grave accent is written as its code point)
punctuation ==
    {"!","\"","#","$","%","&","'","(",")","*","+",",","-",".","/",":",";","<",
     "=",">","?","@","[","\\","]","^","_","U+0060","{","|","}","~"}

\* s[i:j], i and j 0-based and not negative; like Python's, it stops at the end
Slice(s, i, j) ==
    LET lo == IF i > Len(s) THEN Len(s) ELSE i
        hi == IF j > Len(s) THEN Len(s) ELSE j
    IN  SubSeq(s, lo + 1, hi)

\* s[k:], k 0-based
From(s, k) == Slice(s, k, Len(s))

-----------------------------------------------------------------------------
(* next_short_string, main.py 192-260 *)

\* a seeded fault: the successor does not wrap from the last symbol to the first
increment_symbol_nowrap(letter) ==
    LET i == find(allowed_characters, <<letter>>)
    IN  IF i + 1 >= maxchar_limit THEN letter ELSE allowed_characters[i + 2]

increment_symbol(letter) ==
    allowed_characters[((find(allowed_characters, <<letter>>) + 1) % maxchar_limit) + 1]

\* a seeded fault: the loop never breaks, every symbol is incremented
RECURSIVE carry_loop_no_break(_, _, _)
carry_loop_no_break(prev_string, new_string, num) ==
    IF num = 0 THEN new_string
    ELSE LET inc == [new_string EXCEPT ![num] = increment_symbol(prev_string[num])]
             grown == IF num = 1 /\ inc[num] = "a" THEN Append(inc, "a") ELSE inc
         IN  carry_loop_no_break(prev_string, grown, num - 1)

\* a seeded fault: a carry out of the first symbol appends nothing
RECURSIVE carry_loop_no_grow(_, _, _)
carry_loop_no_grow(prev_string, new_string, num) ==
    IF num = 0 THEN new_string
    ELSE IF num = Len(prev_string) \/ new_string[num + 1] = "a"
         THEN carry_loop_no_grow(prev_string,
                  [new_string EXCEPT ![num] = increment_symbol(prev_string[num])],
                  num - 1)
         ELSE new_string

\* One pass of `for num, symbol in reversed(list(enumerate(prev_string)))`,
\* from index num (1-based here) down to the first symbol, with its break.
RECURSIVE carry_loop(_, _, _)
carry_loop(prev_string, new_string, num) ==
    IF num = 0 THEN new_string
    ELSE IF num = Len(prev_string) \/ new_string[num + 1] = "a"
         THEN LET inc == [new_string EXCEPT ![num] = increment_symbol(prev_string[num])]
                  grown == IF num = 1 /\ inc[num] = "a" THEN Append(inc, "a") ELSE inc
              IN  carry_loop(prev_string, grown, num - 1)
         ELSE new_string

\* a seeded fault: the protected check is dropped
next_short_string_unchecked(prev_string, protected) ==
    IF ~Truthy(prev_string) THEN <<"a">>
    ELSE carry_loop(prev_string, prev_string, Len(prev_string))

\* a seeded fault: only None counts as no prev_string, '' is incremented
next_short_string_none_only(prev_string, protected) ==
    IF prev_string = None THEN <<"a">>
    ELSE carry_loop(prev_string, prev_string, Len(prev_string))

RECURSIVE next_short_string(_, _)
next_short_string(prev_string, protected) ==
    IF ~Truthy(prev_string) THEN <<"a">>
    ELSE LET new_string == carry_loop(prev_string, prev_string, Len(prev_string))
         IN  IF protected # {} /\ new_string \in protected
             THEN next_short_string(new_string, protected)
             ELSE new_string

\* the number of times the for loop of main.py 231-251 is run by one call
\* next_short_string(prev_string, protected), the recursive calls of 258
\* included
RECURSIVE increment_steps(_, _)
increment_steps(prev_string, protected) ==
    IF ~Truthy(prev_string) THEN 0
    ELSE LET new_string == carry_loop(prev_string, prev_string, Len(prev_string))
         IN  IF protected # {} /\ new_string \in protected
             THEN 1 + increment_steps(new_string, protected)
             ELSE 1

-----------------------------------------------------------------------------
(* The generator applied to bounded inputs *)

CodesOver(S, n) == UNION { [1..k -> S] : k \in 1..n }

AllSymbols == { allowed_characters[i] : i \in 1..maxchar_limit }

\* the symbols at the ends of the three runs of the alphabet, and 'b'
ProbeSymbols == {"a", "b", "z", "Z", "9"}

\* the inputs of the docstring's examples, and the code before 'reverse'
ExampleCodes ==
    { <<"a","b","z">>, <<"a","B","C","f","9","9">>, <<"9","9","9","9">>,
      <<"r","e","v","e","r","s","d">> }

ValidCodes ==
    CodesOver(AllSymbols, 1) \cup CodesOver(ProbeSymbols, MaxCodeLen) \cup ExampleCodes

GenInputs == {None, <<>>} \cup ValidCodes

ReservedUniverse ==
    { <<"a">>, <<"b">>, <<"c">>, <<"a","a">>, <<"a","b">> } \cup protected_paths

ProtectedSets == { R \in SUBSET ReservedUniverse : Cardinality(R) <= MaxReserved }

\* a call of next_short_string on the last string issued
GenerateNext ==
    /\ Len(gen_issued) < MaxIssued
    /\ LET new_string == next_short_string(gen_prev, gen_protected)
       IN  /\ gen_issued' = Append(gen_issued, new_string)
           /\ gen_prev' = new_string
    /\ UNCHANGED <<gen_input, gen_protected>>
    /\ UNCHANGED <<admVars, storeVars, concVars>>

-----------------------------------------------------------------------------
(* URL helpers, main.py 47-151 *)

http_text   == <<"h","t","t","p">>
https_text  == <<"h","t","t","p","s">>
scheme_sep  == <<":","/","/">>

\* urlparse's scheme_chars
scheme_chars ==
    AllSymbols \cup {"+", "-", "."}

\* urlparse.urlparse(url): the scheme and netloc it splits off
urlparse(url) ==
    LET i == find(url, <<":">>)
        head == Slice(url, 0, i)
        rest == From(url, i + 1)
        split == IF i > 0 /\ head = http_text THEN TRUE
                 ELSE IF i > 0 /\ (\A k \in 1..i : url[k] \in scheme_chars)
                      THEN rest = <<>> \/ ~IsDigits(rest)
                      ELSE FALSE
        scheme == IF split THEN lower(head) ELSE <<>>
        after == IF split THEN rest ELSE url
        delims == {k \in 3..Len(after) : after[k] \in {"/", "?", "#"}}
        delim == IF delims = {} THEN Len(after) + 1
                 ELSE CHOOSE k \in delims : \A m \in delims : k <= m
    IN  [scheme |-> scheme,
         netloc |-> IF Slice(after, 0, 2) = <<"/","/">>
                    THEN Slice(after, 2, delim - 1) ELSE <<>>]

get_domain(url, keep_schema) ==
    LET parsed == urlparse(url)
    IN  (IF keep_schema /\ parsed.scheme # <<>>
         THEN parsed.scheme \o scheme_sep ELSE <<>>) \o parsed.netloc

\* s up to the first of its characters that is in chars
before_any(s, chars) ==
    Slice(s, 0, (CHOOSE k \in 1..(Len(s) + 1) :
                    /\ k <= Len(s) => s[k] \in chars
                    /\ \A m \in 1..(k - 1) : s[m] \notin chars) - 1)

\* what urlparse leaves once the scheme is split off
after_scheme(url) ==
    IF urlparse(url).scheme = <<>> THEN url
    ELSE From(url, Len(urlparse(url).scheme) + 1)

\* what urlparse leaves once the netloc is split off too
after_netloc(url) ==
    Eval(after_scheme(url),
         LAMBDA after : IF Slice(after, 0, 2) = <<"/","/">>
                        THEN From(after, 2 + Len(urlparse(url).netloc))
                        ELSE after)

\* the position (0 for none) of the last '/' of s
last_slash(s) ==
    CHOOSE k \in 0..Len(s) :
        /\ k > 0 => s[k] = "/"
        /\ \A m \in (k + 1)..Len(s) : s[m] # "/"

\* urlparse.urlparse(url).path: what precedes the query and the fragment,
\* without the parameters of its last segment
urlparse_path(url) ==
    Eval(before_any(after_netloc(url), {"?", "#"}),
         LAMBDA whole : Slice(whole, 0, last_slash(whole))
                        \o before_any(From(whole, last_slash(whole)), {";"}))

\* main.py 67-78
get_url_string(url) == From(urlparse_path(url), 1)

\* the schema validate_schema determines, main.py 110-120
schema_of(url) ==
    IF Contains(url, scheme_sep)
    THEN Slice(url, 0, find(url, scheme_sep))
    ELSE LET puncts == {i \in 1..Len(url) : url[i] \in punctuation}
         IN  IF puncts = {} THEN <<>>
             ELSE LET first == CHOOSE i \in puncts : \A j \in puncts : i <= j
                  IN  IF url[first] = ":"
                      THEN Slice(url, 0, find(url, <<":">>))
                      ELSE <<>>

\* a seeded fault: the schema is compared without regard to case
validate_schema_anycase(url) ==
    LET schema == schema_of(url)
    IN  IF lower(schema) \in {http_text, https_text}
        THEN [raised |-> FALSE, url |-> url, schema |-> schema]
        ELSE IF schema = <<>>
        THEN [raised |-> FALSE, url |-> http_text \o scheme_sep \o url, schema |-> schema]
        ELSE [raised |-> TRUE, url |-> url, schema |-> schema]

\* validate_schema: the url it returns, or the UserWarning it raises
validate_schema(url) ==
    LET schema == schema_of(url)
    IN  IF schema \in {http_text, https_text}
        THEN [raised |-> FALSE, url |-> url, schema |-> schema]
        ELSE IF schema = <<>>
        THEN [raised |-> FALSE, url |-> http_text \o scheme_sep \o url, schema |-> schema]
        ELSE [raised |-> TRUE, url |-> url, schema |-> schema]

\* validate_url: the status text it returns, or the UserWarning it raises.
\* fetch is what requests.get does: an exception, or a response.
validate_url(url, fetch) ==
    IF fetch.kind = "exception"
    THEN [raised |-> TRUE, url_status |-> <<>>]
    ELSE [raised |-> FALSE,
          url_status |-> str_int(fetch.status_code) \o <<":"," ">> \o fetch.reason]

remove_non_ascii(s) == SelectSeq(s, LAMBDA i : i \notin NonAscii)

-----------------------------------------------------------------------------
(* safe_check, main.py 153-190 *)

\* a seeded fault: every failure of the request or of the parse counts as safe
safe_check_fail_open(url, wot) ==
    IF wot.kind # "json" \/ wot.top # "object" \/ wot.hosts = <<>>
       \/ ~wot.hosts[1].has_categories
    THEN [result |-> "safe", category |-> "", detail |-> <<>>]
    ELSE [result |-> "warning", category |-> "unsafe", detail |-> <<>>]

\* a seeded fault: the category names keep their capitals
safe_check_no_lower(url, wot) ==
    IF wot.kind = "unreachable"
    THEN [result |-> "exception", category |-> "ConnectionError", detail |-> <<>>]
    ELSE IF wot.kind = "unparseable"
    THEN [result |-> "warning", category |-> "json-failure", detail |-> <<>>]
    ELSE IF wot.top # "object"
    THEN [result |-> "exception", category |-> "TypeError", detail |-> <<>>]
    ELSE IF wot.hosts = <<>> \/ ~wot.hosts[1].has_categories
    THEN [result |-> "safe", category |-> "", detail |-> <<>>]
    ELSE LET keys == wot.hosts[1].categories
             bad == {i \in 1..Len(keys) :
                        ~IsDigits(keys[i]) \/ int_str(keys[i]) \notin unwanted_WOT_codes}
             first == CHOOSE i \in bad : \A j \in bad : i <= j
         IN  IF bad # {}
             THEN IF IsDigits(keys[first])
                  THEN [result |-> "safe", category |-> "", detail |-> <<>>]
                  ELSE [result |-> "exception", category |-> "ValueError", detail |-> <<>>]
             ELSE [result |-> "warning", category |-> "unsafe",
                   detail |-> (join(<<","," ">>,
                       [i \in 1..Len(keys) |-> unwanted_WOT_categories(int_str(keys[i]))]))]

\* The outcome of safe_check(url) given what the Web of Trust request does:
\*   kind "unreachable"  requests.get raises
\*   kind "unparseable"  json.loads raises ValueError
\*   kind "json"         the text parses; top is "object" with the members
\*                       `hosts` in iteration order, or "other". A member has
\*                       or lacks 'categories', whose keys come in iteration
\*                       order.
\* result: "safe" (returns True), "warning" (raises UserWarning, with the
\* message's argument), or "exception" (raises anything else).
safe_check(url, wot) ==
    IF wot.kind = "unreachable"
    THEN [result |-> "exception", category |-> "ConnectionError", detail |-> <<>>]
    ELSE IF wot.kind = "unparseable"
    THEN [result |-> "warning", category |-> "json-failure", detail |-> <<>>]
    ELSE IF wot.top # "object"
    THEN [result |-> "exception", category |-> "TypeError", detail |-> <<>>]
    ELSE IF wot.hosts = <<>> \/ ~wot.hosts[1].has_categories
    THEN [result |-> "safe", category |-> "", detail |-> <<>>]
    ELSE LET keys == wot.hosts[1].categories
             bad == {i \in 1..Len(keys) :
                        ~IsDigits(keys[i]) \/ int_str(keys[i]) \notin unwanted_WOT_codes}
             first == CHOOSE i \in bad : \A j \in bad : i <= j
         IN  IF bad # {}
             THEN IF IsDigits(keys[first])
                  THEN [result |-> "safe", category |-> "", detail |-> <<>>]
                  ELSE [result |-> "exception", category |-> "ValueError", detail |-> <<>>]
             ELSE [result |-> "warning", category |-> "unsafe",
                   detail |-> lower(join(<<","," ">>,
                       [i \in 1..Len(keys) |-> unwanted_WOT_categories(int_str(keys[i]))]))]

-----------------------------------------------------------------------------
(* main_page's validation block, main.py 317-359 *)

\* request.url of a request for the main page
request_url == <<"h","t","t","p",":","/","/","s","/">>

NoError == [category |-> "", detail |-> <<>>]

\* main.py 80-96
validate_short_url(url) ==
    /\ Contains(urlparse(url).netloc, get_domain(request_url, FALSE))
    /\ Truthy(urlparse_path(url))
    /\ Len(urlparse_path(url)) > 1

\* the locals of main_page after `long_url = request.form.get('long_url')`
AdmStart(raw) ==
    [pc |-> "begin", long_url |-> raw, error |-> NoError, url_is_safe |-> FALSE,
     url_status |-> <<>>, exception |-> "", calls |-> <<>>]

\* `except UserWarning as e`, main.py 356-359
Reject(st, category, detail) ==
    [st EXCEPT !.pc = "done", !.error = [category |-> category, detail |-> detail],
               !.long_url = <<>>, !.url_is_safe = FALSE]

\* an exception no handler of main_page catches
Abort(st, exception) == [st EXCEPT !.pc = "failed", !.exception = exception]

\* main.py 326-330
stage_begin(st) ==
    IF Truthy(st.long_url)
    THEN [st EXCEPT !.pc = "strip"]
    ELSE [st EXCEPT !.pc = "done", !.long_url = <<>>]

\* main.py 334
stage_strip(st) ==
    [st EXCEPT !.pc = "remove_non_ascii", !.long_url = strip(st.long_url)]

\* main.py 337
stage_remove_non_ascii(st) ==
    [st EXCEPT !.pc = "validate_schema", !.long_url = remove_non_ascii(st.long_url)]

\* a seeded fault: an illegal schema does not end the validation
stage_validate_schema_goes_on(st) ==
    [st EXCEPT !.pc = "validate_url",
               !.error = IF validate_schema(st.long_url).raised
                         THEN [category |-> "illegal-schema",
                               detail |-> validate_schema(st.long_url).schema]
                         ELSE NoError]

\* main.py 340
stage_validate_schema(st) ==
    LET r == validate_schema(st.long_url)
    IN  IF r.raised THEN Reject(st, "illegal-schema", r.schema)
        ELSE [st EXCEPT !.pc = "validate_url", !.long_url = r.url]

\* main.py 343
stage_validate_url(st, fetch) ==
    LET r == validate_url(st.long_url, fetch)
        called == [st EXCEPT !.calls = Append(st.calls,
                        [service |-> "fetch", arg |-> st.long_url])]
    IN  IF r.raised THEN Reject(called, "not-reachable", st.long_url)
        ELSE [called EXCEPT !.pc = "check_404", !.url_status = r.url_status]

\* a seeded fault: the 404 test is left out
stage_check_404_skipped(st) == [st EXCEPT !.pc = "safe_check"]

\* main.py 345-346
stage_check_404(st) ==
    IF Contains(st.url_status, <<"4","0","4">>)
    THEN Reject(st, "not-found", get_domain(st.long_url, FALSE))
    ELSE [st EXCEPT !.pc = "safe_check"]

\* main.py 349
stage_safe_check(st, wot) ==
    LET r == safe_check(st.long_url, wot)
        called == [st EXCEPT !.calls = Append(st.calls,
                        [service |-> "wot", arg |-> get_domain(st.long_url, FALSE)])]
    IN  CASE r.result = "exception" -> Abort(called, r.category)
          [] r.result = "warning" -> Reject(called, r.category, r.detail)
          [] r.result = "safe" ->
                [called EXCEPT !.pc = "self_check", !.url_is_safe = TRUE]

\* main.py 352-354
stage_self_check(st) ==
    IF Contains(st.long_url, request_url) /\ request_url # st.long_url
    THEN Reject(st, "self-reference", <<>>)
    ELSE [st EXCEPT !.pc = "done"]

AdmStep(st, fetch, wot) ==
    CASE st.pc = "begin" -> stage_begin(st)
      [] st.pc = "strip" -> stage_strip(st)
      [] st.pc = "remove_non_ascii" -> stage_remove_non_ascii(st)
      [] st.pc = "validate_schema" -> stage_validate_schema(st)
      [] st.pc = "validate_url" -> stage_validate_url(st, fetch)
      [] st.pc = "check_404" -> stage_check_404(st)
      [] st.pc = "safe_check" -> stage_safe_check(st, wot)
      [] st.pc = "self_check" -> stage_self_check(st)

\* the whole validation block, run to its end
RECURSIVE RunAdmission(_, _, _)
RunAdmission(st, fetch, wot) ==
    IF st.pc \in {"done", "failed"} THEN st
    ELSE Eval(AdmStep(st, fetch, wot), LAMBDA n : RunAdmission(n, fetch, wot))

-----------------------------------------------------------------------------
(* The validation block applied to bounded inputs, stage by stage *)

Pads == { <<>>, <<" ">> }

SchemePrefixes ==
    { <<>>, <<"h","t","t","p",":","/","/">>, <<"h","t","t","p","s",":","/","/">>,
      <<"f","t","p",":","/","/">>, <<"H","T","T","P",":","/","/">>,
      <<"d","a","t","a",":">>, <<"h","t","t","p",":">>, <<":","/","/">>, <<":">> }

UrlBodies ==
    { <<"h">>, <<"h","/","p">>, <<"s","/">>, <<"s","/","b">>,
      <<"h",":","8","/","p">>, <<"h",".","c",":","8">>, <<"h","U+00E9">>,
      <<"h","/","?","u","=","h","t","t","p",":","/","/","s","/">> }

\* what the form field long_url can hold: nothing, or a text
RawUrls ==
    {None, <<>>, <<" ">>} \cup
    { p \o s \o b \o p : p \in Pads, s \in SchemePrefixes, b \in UrlBodies }

StatusCodes == {200, 404, 500}

Reasons ==
    { <<>>, <<"O","K">>, <<"N","o","t"," ","F","o","u","n","d">>, <<"E","4","0","4">> }

NoCall == [kind |-> "none"]

\* what requests.get(long_url) can do
FetchOutcomes ==
    { [kind |-> "exception", status_code |-> 0, reason |-> <<>>] } \cup
    { [kind |-> "response", status_code |-> c, reason |-> r] :
        c \in StatusCodes, r \in Reasons }

\* what requests.get(url) can do for this url: with no host to connect to it
\* raises before any request is sent
PossibleFetches(url) ==
    LET netloc == get_domain(url, FALSE)
    IN  IF netloc # <<>> /\ netloc[1] \in AllSymbols
        THEN FetchOutcomes
        ELSE { f \in FetchOutcomes : f.kind = "exception" }

CategoryKeys ==
    { <<>>, << <<"1","0","1">> >>, << <<"2","0","4">>, <<"1","0","1">> >>,
      << <<"5","0","1">> >>, << <<"1","0","1">>, <<"5","0","1">> >>, << <<"x">> >>,
      << <<"1","0","3">>, <<"1","0","4">>, <<"1","0","5">>, <<"2","0","3">>,
         <<"2","0","5">>, <<"2","0","6">> >> }

\* what the Web of Trust request can do
WotOutcomes ==
    { [kind |-> "unreachable", top |-> "", hosts |-> <<>>],
      [kind |-> "unparseable", top |-> "", hosts |-> <<>>],
      [kind |-> "json", top |-> "other", hosts |-> <<>>],
      [kind |-> "json", top |-> "object", hosts |-> <<>>],
      [kind |-> "json", top |-> "object",
       hosts |-> << [has_categories |-> FALSE, categories |-> <<>>] >>] } \cup
    { [kind |-> "json", top |-> "object",
       hosts |-> << [has_categories |-> TRUE, categories |-> k] >>] : k \in CategoryKeys }

AdmBegin ==
    /\ adm.pc = "begin"
    /\ adm' = stage_begin(adm)
    /\ UNCHANGED <<adm_fetch, adm_wot, genVars, storeVars, concVars>>

AdmStrip ==
    /\ adm.pc = "strip"
    /\ adm' = stage_strip(adm)
    /\ UNCHANGED <<adm_fetch, adm_wot, genVars, storeVars, concVars>>

AdmRemoveNonAscii ==
    /\ adm.pc = "remove_non_ascii"
    /\ adm' = stage_remove_non_ascii(adm)
    /\ UNCHANGED <<adm_fetch, adm_wot, genVars, storeVars, concVars>>

AdmValidateSchema ==
    /\ adm.pc = "validate_schema"
    /\ adm' = stage_validate_schema(adm)
    /\ UNCHANGED <<adm_fetch, adm_wot, genVars, storeVars, concVars>>

AdmValidateUrl ==
    /\ adm.pc = "validate_url"
    /\ \E fetch \in PossibleFetches(adm.long_url) :
        /\ adm_fetch' = fetch
        /\ adm' = stage_validate_url(adm, fetch)
    /\ UNCHANGED <<adm_wot, genVars, storeVars, concVars>>

AdmCheck404 ==
    /\ adm.pc = "check_404"
    /\ adm' = stage_check_404(adm)
    /\ UNCHANGED <<adm_fetch, adm_wot, genVars, storeVars, concVars>>

AdmSafeCheck ==
    /\ adm.pc = "safe_check"
    /\ \E wot \in WotOutcomes :
        /\ adm_wot' = wot
        /\ adm' = stage_safe_check(adm, wot)
    /\ UNCHANGED <<adm_fetch, genVars, storeVars, concVars>>

AdmSelfCheck ==
    /\ adm.pc = "self_check"
    /\ adm' = stage_self_check(adm)
    /\ UNCHANGED <<adm_fetch, adm_wot, genVars, storeVars, concVars>>

-----------------------------------------------------------------------------
(* The record store: the statements the handlers send, main.py 367-381, 483-490 *)

Row(id, short_url, long_url, hits) ==
    [id |-> id, short_url |-> short_url, long_url |-> long_url, hits |-> hits]

\* SELECT short_url FROM t WHERE long_url = '..'
select_by_long_url(tbl, long_url) ==
    SelectSeq(tbl, LAMBDA r : r.long_url = long_url)

\* SELECT short_url FROM t WHERE id=(select max(id) from t)
select_latest(tbl) ==
    SelectSeq(tbl, LAMBDA r : \A q \in {tbl[i] : i \in 1..Len(tbl)} : q.id <= r.id)

\* SELECT .. FROM t WHERE short_url = '..'
select_by_short_url(tbl, short_url) ==
    SelectSeq(tbl, LAMBDA r : r.short_url = short_url)

NextId(tbl) ==
    IF tbl = <<>> THEN 1
    ELSE 1 + (CHOOSE m \in {tbl[i].id : i \in 1..Len(tbl)} :
                 \A i \in 1..Len(tbl) : tbl[i].id <= m)

\* INSERT INTO t (SHORT_URL, LONG_URL, HITS) VALUES ('..', '..', 0)
insert_row(tbl, short_url, long_url) ==
    Append(tbl, Row(NextId(tbl), short_url, long_url, 0))

\* a seeded fault: the UPDATE has no WHERE clause
update_hits_all(tbl, short_url) ==
    [i \in 1..Len(tbl) |-> [tbl[i] EXCEPT !.hits = @ + 1]]

\* UPDATE t SET hits = hits + 1 WHERE short_url = '..'
update_hits(tbl, short_url) ==
    [i \in 1..Len(tbl) |->
        IF tbl[i].short_url = short_url
        THEN [tbl[i] EXCEPT !.hits = @ + 1] ELSE tbl[i]]

-----------------------------------------------------------------------------
(* The handlers, each request handled whole (one request at a time) *)

Response(handler, arg, status, short_url, long_url, error, before) ==
    [handler |-> handler, arg |-> arg, status |-> status, short_url |-> short_url,
     long_url |-> long_url, error |-> error, before |-> before]

NoResponse == Response("", <<>>, 0, <<>>, <<>>, NoError, <<>>)

\* the long URLs submitted to the store
StoreUrls ==
    { None, <<"h">>, <<" ","h"," ">>, <<"h","t","t","p",":","/","/","h">>,
      <<"h","/","p">>, <<"h","t","t","p","s",":","/","/","h">>,
      <<"f","t","p",":","/","/","h">>, <<"s","/","b">> }

StoreFetches ==
    { [kind |-> "exception", status_code |-> 0, reason |-> <<>>],
      [kind |-> "response", status_code |-> 200, reason |-> <<"O","K">>],
      [kind |-> "response", status_code |-> 404,
       reason |-> <<"N","o","t"," ","F","o","u","n","d">>] }

StoreWots ==
    { [kind |-> "unreachable", top |-> "", hosts |-> <<>>],
      [kind |-> "json", top |-> "object", hosts |-> <<>>],
      [kind |-> "json", top |-> "object",
       hosts |-> << [has_categories |-> TRUE, categories |-> << <<"1","0","1">> >>] >>] }

\* the validation block's outcome for each input of the store's requests,
\* tabulated
Validated ==
    [raw \in StoreUrls, fetch \in StoreFetches, wot \in StoreWots |->
        RunAdmission(AdmStart(raw), fetch, wot)]

\* a seeded fault: the look-up of an existing record is left out
store_url_no_lookup(tbl, st) ==
    IF select_latest(tbl) = <<>>
    THEN [table |-> tbl,
          resp |-> Response("main_page", st.long_url, 500, <<>>, <<>>,
                            [category |-> "TypeError", detail |-> <<>>], tbl)]
    ELSE LET short_url == next_short_string(select_latest(tbl)[1].short_url,
                                            protected_paths)
         IN  [table |-> insert_row(tbl, short_url, st.long_url),
              resp |-> Response("main_page", st.long_url, 200,
                                request_url \o short_url, st.long_url, st.error, tbl)]

\* main_page once `url_is_safe` holds, main.py 363-391: the look-up of an
\* existing record, or else the next string after the latest row's and the
\* INSERT. With no row at all, cursor.fetchone() is None and the subscript
\* of main.py 373 raises TypeError, inside the except block: the request
\* fails, and the response's error names the exception.
store_url(tbl, st) ==
    LET existing == select_by_long_url(tbl, st.long_url)
    IN  IF existing # <<>>
        THEN [table |-> tbl,
              resp |-> Response("main_page", st.long_url, 200,
                                request_url \o existing[1].short_url,
                                st.long_url, st.error, tbl)]
        ELSE IF select_latest(tbl) = <<>>
        THEN [table |-> tbl,
              resp |-> Response("main_page", st.long_url, 500, <<>>, <<>>,
                                [category |-> "TypeError", detail |-> <<>>], tbl)]
        ELSE LET short_url == next_short_string(select_latest(tbl)[1].short_url,
                                                protected_paths)
             IN  [table |-> insert_row(tbl, short_url, st.long_url),
                  resp |-> Response("main_page", st.long_url, 200,
                                    request_url \o short_url, st.long_url,
                                    st.error, tbl)]

\* a seeded fault: the store part runs whether or not url_is_safe holds
render_main_page_always_stores(tbl, st) ==
    IF st.pc = "failed"
    THEN [table |-> tbl,
          resp |-> Response("main_page", st.long_url, 500, <<>>, <<>>, st.error, tbl)]
    ELSE IF ~st.url_is_safe
    THEN [table |-> store_url(tbl, st).table,
          resp |-> Response("main_page", st.long_url, 200, <<>>, st.long_url,
                            st.error, tbl)]
    ELSE store_url(tbl, st)

\* main_page after its validation block has left st, main.py 362-391
render_main_page(tbl, st) ==
    IF st.pc = "failed"
    THEN [table |-> tbl,
          resp |-> Response("main_page", st.long_url, 500, <<>>, <<>>, st.error, tbl)]
    ELSE IF ~st.url_is_safe
    THEN [table |-> tbl,
          resp |-> Response("main_page", st.long_url, 200, <<>>, st.long_url,
                            st.error, tbl)]
    ELSE store_url(tbl, st)

\* main_page, main.py 299-391: the table and the response it leaves.
\* The response's arg is the long_url the validation block leaves.
main_page(tbl, raw, fetch, wot) ==
    Eval(Validated[raw, fetch, wot], LAMBDA st : render_main_page(tbl, st))

\* destination_redirect, main.py 469-494
destination_redirect(tbl, short_url) ==
    LET found == select_by_short_url(tbl, short_url)
        long_url == IF found = <<>> THEN <<>> ELSE found[1].long_url
    IN  IF Truthy(long_url)
        THEN [table |-> update_hits(tbl, short_url),
              resp |-> Response("destination_redirect", short_url, 302, short_url,
                                long_url, NoError, tbl)]
        ELSE [table |-> tbl,
              resp |-> Response("destination_redirect", short_url, 404, short_url,
                                <<>>, NoError, tbl)]

\* reverse_page's validation once short_url is stripped, main.py 432-448
reverse_validate_stripped(stripped, r) ==
    IF r.raised
    THEN [valid_short_url |-> FALSE, short_url |-> stripped, url_string |-> <<>>,
          error |-> [category |-> "illegal-schema", detail |-> r.schema]]
    ELSE IF ~validate_short_url(r.url)
    THEN [valid_short_url |-> FALSE, short_url |-> r.url, url_string |-> <<>>,
          error |-> [category |-> "invalid-short-url", detail |-> <<>>]]
    ELSE [valid_short_url |-> TRUE, short_url |-> r.url,
          url_string |-> get_url_string(r.url), error |-> NoError]

\* reverse_page's locals once the form field short_url is validated and,
\* when it is valid, its url_string taken, main.py 411-448
reverse_validate(raw) ==
    IF ~Truthy(raw)
    THEN [valid_short_url |-> FALSE, short_url |-> raw, url_string |-> <<>>,
          error |-> NoError]
    ELSE Eval(validate_schema(strip(raw)),
              LAMBDA r : reverse_validate_stripped(strip(raw), r))

\* a seeded fault: a reverse look-up that finds the row counts as a hit
reverse_lookup_counts_hit(tbl, short_url, url_string) ==
    IF select_by_short_url(tbl, url_string) = <<>>
    THEN [table |-> tbl,
          resp |-> Response("reverse_page", url_string, 200, short_url, <<>>,
                            [category |-> "not-in-database", detail |-> <<>>], tbl)]
    ELSE [table |-> update_hits(tbl, url_string),
          resp |-> Response("reverse_page", url_string, 200, short_url,
                            select_by_short_url(tbl, url_string)[1].long_url,
                            NoError, tbl)]

\* reverse_page once valid_short_url holds, main.py 445-467: one SELECT
reverse_lookup(tbl, short_url, url_string) ==
    IF select_by_short_url(tbl, url_string) = <<>>
    THEN [table |-> tbl,
          resp |-> Response("reverse_page", url_string, 200, short_url, <<>>,
                            [category |-> "not-in-database", detail |-> <<>>], tbl)]
    ELSE [table |-> tbl,
          resp |-> Response("reverse_page", url_string, 200, short_url,
                            select_by_short_url(tbl, url_string)[1].long_url,
                            NoError, tbl)]

\* reverse_page after its validation has left v, main.py 444-467
render_reverse_page(tbl, v) ==
    IF ~v.valid_short_url
    THEN [table |-> tbl,
          resp |-> Response("reverse_page", <<>>, 200, v.short_url, <<>>, v.error, tbl)]
    ELSE reverse_lookup(tbl, v.short_url, v.url_string)

\* the short URLs submitted to reverse_page
ReverseUrls ==
    { None, <<"s","/","a">>, <<" ","h","t","t","p",":","/","/","s","/","b"," ">>,
      <<"h","t","t","p",":","/","/","s","/","z","z">>,
      <<"h","t","t","p",":","/","/","h","/","a">>,
      <<"f","t","p",":","/","/","s","/","a">>,
      <<"h","t","t","p",":","/","/","s","/">> }

\* the validation's outcome for each short URL submitted, tabulated
ReverseValidated == [raw \in ReverseUrls |-> reverse_validate(raw)]

\* what the validation leaves on the requests for the reverse page
ReverseOutcomes == { ReverseValidated[raw] : raw \in ReverseUrls }

\* reverse_page, main.py 393-467: it changes no row. The response's arg is
\* the url_string looked up, its long_url the row's.
reverse_page(tbl, raw) ==
    Eval(ReverseValidated[raw], LAMBDA v : render_reverse_page(tbl, v))

\* the codes asked of destination_redirect: the stored ones and two others
\* ('reverse' is routed to reverse_page)
RequestedCodes(tbl) ==
    { tbl[i].short_url : i \in 1..Len(tbl) } \cup { <<"a">>, <<"z","z">> }

\* the tables the service can be started on
SeedTables ==
    { <<>>,
      << Row(1, <<"a">>, <<"h","t","t","p",":","/","/","x">>, 0) >>,
      << Row(1, <<"9">>, <<"h","t","t","p",":","/","/","x">>, 1) >>,
      << Row(1, <<"r","e","v","e","r","s","d">>, <<"h","t","t","p",":","/","/","x">>, 0) >>,
      << Row(1, <<"a">>, <<"h","t","t","p",":","/","/","x">>, 0),
         Row(2, <<"b">>, <<"h","t","t","p",":","/","/","h">>, 1) >> }

\* what the validation block leaves on the requests for the main page
\* (requests on which it ends alike count once)
ValidationOutcomes ==
    { Validated[raw, fetch, wot] :
        raw \in StoreUrls, fetch \in StoreFetches, wot \in StoreWots }

\* a request for the main page: its validation block, then the store part
MainPage ==
    /\ \E st \in ValidationOutcomes :
        \E out \in { render_main_page(table, st) } :
            /\ Len(out.table) <= MaxRecords
            /\ table' = out.table
            /\ resp' = out.resp
    /\ UNCHANGED <<genVars, admVars, concVars>>

DestinationRedirect ==
    /\ \E short_url \in RequestedCodes(table) :
        \E out \in { destination_redirect(table, short_url) } :
            /\ \A i \in 1..Len(out.table) : out.table[i].hits <= MaxHits
            /\ table' = out.table
            /\ resp' = out.resp
    /\ UNCHANGED <<genVars, admVars, concVars>>

\* a request for the reverse page: its validation, then the look-up
ReversePage ==
    /\ \E v \in ReverseOutcomes :
        \E out \in { render_reverse_page(table, v) } :
            /\ table' = out.table
            /\ resp' = out.resp
    /\ UNCHANGED <<genVars, admVars, concVars>>

-----------------------------------------------------------------------------
(* The handlers statement by statement, several requests in flight.        *)
(* Every request uses the one module-level connection pg and its cursor    *)
(* (main.py 277-278): a statement's rows wait in the cursor until some     *)
(* request fetches them, and all requests share one transaction, so an     *)
(* INSERT or UPDATE is seen by the statements that follow it.              *)

Workers == 1..NumWorkers

\* the cursor after execute(): the rows of a SELECT, or no result set
ResultSet(rows) == [has_rows |-> TRUE, rows |-> rows]
NoResultSet == [has_rows |-> FALSE, rows |-> <<>>]

Column(rows, name) == [i \in 1..Len(rows) |-> <<rows[i][name]>>]

\* an integer column's value in a fetched row (never equal to a text)
IntValue(n) == <<"int">> \o str_int(n)
IsInt(v) == v # <<>> /\ v[1] = "int"

\* the rows of SELECT *: long_url, created and hits are read at the
\* positions 2, 3 and 4 (main.py 456-458), id and short_url come before them
AllColumns(rows) ==
    [i \in 1..Len(rows) |->
        << IntValue(rows[i].id), rows[i].short_url, rows[i].long_url,
           <<"datetime">>, IntValue(rows[i].hits) >>]

\* cursor.fetchone()[0] can be evaluated: there is a result set and a row left
CanFetch == cursor.has_rows /\ cursor.rows # <<>>

\* a request's locals; selected is history, read by no handler: the rows
\* the request's own SELECT of main.py 483 produced
Idle ==
    [pc |-> "idle", handler |-> "", long_url |-> <<>>, short_url |-> <<>>,
     last_used_string |-> <<>>, url_string |-> <<>>, hits |-> <<>>,
     error |-> NoError, status |-> 0, selected |-> <<>>]

\* the validated URLs of the requests in flight
ConcUrls == { <<"h">>, <<"h","/","p">> }

OkFetch == [kind |-> "response", status_code |-> 200, reason |-> <<"O","K">>]
OkWot == [kind |-> "json", top |-> "object", hosts |-> <<>>]

\* main.py 317-363: the validation block, which touches nothing shared
BeginMainPage(w) ==
    /\ procs[w].pc = "idle"
    /\ \E raw \in ConcUrls :
        \E st \in { RunAdmission(AdmStart(raw), OkFetch, OkWot) } :
            /\ st.url_is_safe
            /\ procs' = [procs EXCEPT ![w] =
                    [Idle EXCEPT !.pc = "m_select", !.handler = "main_page",
                                 !.long_url = st.long_url]]
    /\ UNCHANGED <<table, cursor, resp, genVars, admVars>>

\* main.py 367
MainSelectExisting(w) ==
    /\ procs[w].pc = "m_select"
    /\ cursor' = ResultSet(Column(select_by_long_url(table, procs[w].long_url),
                                  "short_url"))
    /\ procs' = [procs EXCEPT ![w].pc = "m_fetch"]
    /\ UNCHANGED <<table, resp, genVars, admVars>>

\* main.py 368 and the bare except of 370; on a row, 384 (where adding an
\* integer to request.url raises TypeError, caught by nothing)
MainFetchExisting(w) ==
    /\ procs[w].pc = "m_fetch"
    /\ IF CanFetch
       THEN /\ cursor' = [cursor EXCEPT !.rows = Tail(@)]
            /\ IF IsInt(cursor.rows[1][1])
               THEN procs' = [procs EXCEPT ![w].pc = "failed", ![w].status = 500]
               ELSE procs' = [procs EXCEPT ![w].pc = "done", ![w].status = 200,
                                 ![w].short_url = request_url \o cursor.rows[1][1]]
       ELSE /\ procs' = [procs EXCEPT ![w].pc = "m_select_last"]
            /\ UNCHANGED cursor
    /\ UNCHANGED <<table, resp, genVars, admVars>>

\* main.py 372
MainSelectLatest(w) ==
    /\ procs[w].pc = "m_select_last"
    /\ cursor' = ResultSet(Column(select_latest(table), "short_url"))
    /\ procs' = [procs EXCEPT ![w].pc = "m_fetch_last"]
    /\ UNCHANGED <<table, resp, genVars, admVars>>

\* main.py 373: an exception here is caught by nothing
MainFetchLatest(w) ==
    /\ procs[w].pc = "m_fetch_last"
    /\ IF CanFetch
       THEN /\ cursor' = [cursor EXCEPT !.rows = Tail(@)]
            /\ procs' = [procs EXCEPT ![w].pc = "m_insert",
                            ![w].last_used_string = cursor.rows[1][1]]
       ELSE /\ procs' = [procs EXCEPT ![w].pc = "failed", ![w].status = 500]
            /\ UNCHANGED cursor
    /\ UNCHANGED <<table, resp, genVars, admVars>>

\* main.py 376-380; list(prev_string) of an integer (228) raises TypeError,
\* caught by nothing
MainInsert(w) ==
    /\ procs[w].pc = "m_insert"
    /\ IF IsInt(procs[w].last_used_string)
       THEN /\ procs' = [procs EXCEPT ![w].pc = "failed", ![w].status = 500]
            /\ UNCHANGED <<table, cursor>>
       ELSE /\ Len(table) < MaxRecords
            /\ \E short_url \in { next_short_string(procs[w].last_used_string,
                                                     protected_paths) } :
                /\ table' = insert_row(table, short_url, procs[w].long_url)
                /\ procs' = [procs EXCEPT ![w].pc = "m_commit",
                                ![w].short_url = short_url]
            /\ cursor' = NoResultSet
    /\ UNCHANGED <<resp, genVars, admVars>>

\* main.py 381-391
MainCommit(w) ==
    /\ procs[w].pc = "m_commit"
    /\ procs' = [procs EXCEPT ![w].pc = "done", ![w].status = 200,
                    ![w].short_url = request_url \o procs[w].short_url]
    /\ UNCHANGED <<table, cursor, resp, genVars, admVars>>

\* a request for /<short_url> arrives
BeginRedirect(w) ==
    /\ procs[w].pc = "idle"
    /\ \E short_url \in RequestedCodes(table) :
        procs' = [procs EXCEPT ![w] =
            [Idle EXCEPT !.pc = "d_select", !.handler = "destination_redirect",
                         !.short_url = short_url]]
    /\ UNCHANGED <<table, cursor, resp, genVars, admVars>>

\* main.py 483
RedirectSelect(w) ==
    /\ procs[w].pc = "d_select"
    /\ cursor' = ResultSet(Column(select_by_short_url(table, procs[w].short_url),
                                  "long_url"))
    /\ procs' = [procs EXCEPT ![w].pc = "d_fetch",
                    ![w].selected = select_by_short_url(table, procs[w].short_url)]
    /\ UNCHANGED <<table, resp, genVars, admVars>>

\* main.py 484-489 and the abort(404) of 494
RedirectFetch(w) ==
    /\ procs[w].pc = "d_fetch"
    /\ IF CanFetch
       THEN /\ cursor' = [cursor EXCEPT !.rows = Tail(@)]
            /\ IF Truthy(cursor.rows[1][1])
               THEN procs' = [procs EXCEPT ![w].pc = "d_update",
                                 ![w].long_url = cursor.rows[1][1]]
               ELSE procs' = [procs EXCEPT ![w].pc = "done", ![w].status = 404]
       ELSE /\ procs' = [procs EXCEPT ![w].pc = "done", ![w].status = 404]
            /\ UNCHANGED cursor
    /\ UNCHANGED <<table, resp, genVars, admVars>>

\* main.py 490
RedirectUpdate(w) ==
    /\ procs[w].pc = "d_update"
    /\ \A i \in 1..Len(table) : table[i].hits < MaxHits
    /\ table' = update_hits(table, procs[w].short_url)
    /\ cursor' = NoResultSet
    /\ procs' = [procs EXCEPT ![w].pc = "d_commit"]
    /\ UNCHANGED <<resp, genVars, admVars>>

\* main.py 491-492
RedirectCommit(w) ==
    /\ procs[w].pc = "d_commit"
    /\ procs' = [procs EXCEPT ![w].pc = "done", ![w].status = 302]
    /\ UNCHANGED <<table, cursor, resp, genVars, admVars>>

\* a request for /reverse arrives: main.py 411-448, which touches nothing
\* shared; without a valid short URL the page is rendered at once (467)
BeginReverse(w) ==
    /\ procs[w].pc = "idle"
    /\ \E v \in ReverseOutcomes :
        procs' = [procs EXCEPT ![w] =
            IF v.valid_short_url
            THEN [Idle EXCEPT !.pc = "r_select", !.handler = "reverse_page",
                              !.short_url = v.short_url,
                              !.url_string = v.url_string]
            ELSE [Idle EXCEPT !.pc = "done", !.handler = "reverse_page",
                              !.short_url = v.short_url, !.error = v.error,
                              !.status = 200]]
    /\ UNCHANGED <<table, cursor, resp, genVars, admVars>>

\* main.py 452
ReverseSelect(w) ==
    /\ procs[w].pc = "r_select"
    /\ cursor' = ResultSet(AllColumns(select_by_short_url(table, procs[w].url_string)))
    /\ procs' = [procs EXCEPT ![w].pc = "r_fetch"]
    /\ UNCHANGED <<table, resp, genVars, admVars>>

\* main.py 453-467: fetchone() without a result set, row[4] of no row and
\* row[4] of a row of one column all raise, and the bare except of 461
\* answers that the short URL was not found
ReverseFetch(w) ==
    /\ procs[w].pc = "r_fetch"
    /\ IF CanFetch
       THEN /\ cursor' = [cursor EXCEPT !.rows = Tail(@)]
            /\ IF Len(cursor.rows[1]) >= 5
               THEN procs' = [procs EXCEPT ![w].pc = "done", ![w].status = 200,
                                 ![w].hits = cursor.rows[1][5],
                                 ![w].long_url = cursor.rows[1][3]]
               ELSE procs' = [procs EXCEPT ![w].pc = "done", ![w].status = 200,
                                 ![w].error = [category |-> "not-in-database",
                                               detail |-> <<>>]]
       ELSE /\ procs' = [procs EXCEPT ![w].pc = "done", ![w].status = 200,
                            ![w].error = [category |-> "not-in-database",
                                          detail |-> <<>>]]
            /\ UNCHANGED cursor
    /\ UNCHANGED <<table, resp, genVars, admVars>>

-----------------------------------------------------------------------------
(* Specifications *)

\* the sequence generator alone, on bounded inputs
InitGen ==
    /\ gen_input \in GenInputs
    /\ gen_protected \in ProtectedSets
    /\ gen_prev = gen_input
    /\ gen_issued = <<>>
    /\ adm = AdmStart(None) /\ adm_fetch = NoCall /\ adm_wot = NoCall
    /\ table = <<>> /\ resp = NoResponse
    /\ cursor = NoResultSet /\ procs = <<>>

SpecGen == InitGen /\ [][GenerateNext]_vars

\* the validation block alone, stage by stage, on bounded inputs
InitAdmit ==
    /\ adm \in { AdmStart(raw) : raw \in RawUrls }
    /\ adm_fetch = NoCall /\ adm_wot = NoCall
    /\ gen_input = None /\ gen_protected = {} /\ gen_prev = None /\ gen_issued = <<>>
    /\ table = <<>> /\ resp = NoResponse
    /\ cursor = NoResultSet /\ procs = <<>>

NextAdmit ==
    \/ AdmBegin
    \/ AdmStrip
    \/ AdmRemoveNonAscii
    \/ AdmValidateSchema
    \/ AdmValidateUrl
    \/ AdmCheck404
    \/ AdmSafeCheck
    \/ AdmSelfCheck

SpecAdmit == InitAdmit /\ [][NextAdmit]_vars

\* the handlers over the record store, one request at a time
Init ==
    /\ table \in SeedTables
    /\ resp = NoResponse
    /\ gen_input = None /\ gen_protected = {} /\ gen_prev = None /\ gen_issued = <<>>
    /\ adm = AdmStart(None) /\ adm_fetch = NoCall /\ adm_wot = NoCall
    /\ cursor = NoResultSet /\ procs = <<>>

Next ==
    \/ MainPage
    \/ DestinationRedirect
    \/ ReversePage

Spec == Init /\ [][Next]_vars

\* the handlers statement by statement, NumWorkers requests in flight
InitConc ==
    /\ table \in SeedTables
    /\ cursor = NoResultSet
    /\ procs = [w \in Workers |-> Idle]
    /\ resp = NoResponse
    /\ gen_input = None /\ gen_protected = {} /\ gen_prev = None /\ gen_issued = <<>>
    /\ adm = AdmStart(None) /\ adm_fetch = NoCall /\ adm_wot = NoCall

NextConc ==
    \E w \in Workers :
        \/ BeginMainPage(w)
        \/ MainSelectExisting(w)
        \/ MainFetchExisting(w)
        \/ MainSelectLatest(w)
        \/ MainFetchLatest(w)
        \/ MainInsert(w)
        \/ MainCommit(w)
        \/ BeginRedirect(w)
        \/ RedirectSelect(w)
        \/ RedirectFetch(w)
        \/ RedirectUpdate(w)
        \/ RedirectCommit(w)
        \/ BeginReverse(w)
        \/ ReverseSelect(w)
        \/ ReverseFetch(w)

SpecConc == InitConc /\ [][NextConc]_vars

-----------------------------------------------------------------------------
(* Properties of the sequence generator, checked under SpecGen *)

\* a non-empty text over the 62 allowed characters
IsCode(c) == Len(c) > 0 /\ \A i \in 1..Len(c) : c[i] \in AllSymbols

\* the 0-based place of a symbol in a..z A..Z 0..9
RankTable ==
    [t \in AllSymbols |->
        (CHOOSE i \in 1..maxchar_limit : allowed_characters[i] = t) - 1]

Rank(symbol) == RankTable[symbol]

\* the order of codes: a shorter code first; at equal length, by the rank of
\* the first symbol that differs
CodeLess(c, d) ==
    \/ Len(c) < Len(d)
    \/ /\ Len(c) = Len(d)
       /\ \E i \in 1..Len(c) :
            /\ c[i] # d[i]
            /\ \A j \in 1..(i - 1) : c[j] = d[j]
            /\ Rank(c[i]) < Rank(d[i])

\* the prev_string of the i-th call
GenArg(i) == IF i = 1 THEN gen_input ELSE gen_issued[i - 1]

\* C1: with no reserved set, from any valid code every string returned is
\* strictly greater in the code order than the code it was generated from,
\* so no string of a run of generations equals the input or an earlier one.
C1_StrictlyIncreasing ==
    (gen_protected = {} /\ IsCode(gen_input)) =>
        /\ \A i \in 1..Len(gen_issued) : CodeLess(GenArg(i), gen_issued[i])
        /\ \A i \in 1..Len(gen_issued) :
              /\ gen_issued[i] # gen_input
              /\ \A j \in 1..(i - 1) : gen_issued[j] # gen_issued[i]

\* C1's case: a run from a code of '9's only, which overflows to a longer code
C1_Witness ==
    /\ gen_protected = {}
    /\ Len(gen_input) >= 2
    /\ \A i \in 1..Len(gen_input) : gen_input[i] = "9"
    /\ Len(gen_issued) = MaxIssued
    /\ Len(gen_issued[1]) = Len(gen_input) + 1

\* C2: whatever the previous code (absent and empty included) and the reserved
\* set, no string returned belongs to the reserved set.
C2_NeverReserved ==
    \A i \in 1..Len(gen_issued) : gen_issued[i] \notin gen_protected

TrailingNines(c) ==
    CHOOSE n \in 0..Len(c) :
        /\ \A i \in (Len(c) - n + 1)..Len(c) : c[i] = "9"
        /\ n < Len(c) => c[Len(c) - n] # "9"

\* the symbol after a symbol other than '9' in a..z A..Z 0..9
Successor(symbol) == allowed_characters[Rank(symbol) + 2]

\* the rightmost-carry increment of a code
RightmostCarry(c) ==
    LET n == TrailingNines(c)
    IN  IF n = Len(c)
        THEN [i \in 1..(Len(c) + 1) |-> "a"]
        ELSE [i \in 1..Len(c) |->
                IF i > Len(c) - n THEN "a"
                ELSE IF i = Len(c) - n THEN Successor(c[i])
                ELSE c[i]]

RECURSIVE CarryTimes(_, _)
CarryTimes(c, k) == IF k = 0 THEN c ELSE CarryTimes(RightmostCarry(c), k - 1)

\* the codes that differ from c in the last symbol at most
NearCodes(c) == { Append(SubSeq(c, 1, Len(c) - 1), t) : t \in AllSymbols }

\* C12, of the last call made (every call is the last one in some state):
\* for a non-empty previous code and a reserved set R, the call runs at
\* most |R|+1 increments, and what it returns is the smallest code greater
\* than the previous code that is not in R: it is not in R, every increment
\* before the last gave a code of R, and every code between the previous
\* code and the result is in R.
C12_SmallestNonReserved ==
    \A i \in {Len(gen_issued)} \ {0} :
        IsCode(GenArg(i)) =>
            LET prev == GenArg(i)
                steps == increment_steps(prev, gen_protected)
            IN  /\ steps >= 1
                /\ steps <= Cardinality(gen_protected) + 1
                /\ gen_issued[i] \notin gen_protected
                /\ CodeLess(prev, gen_issued[i])
                /\ gen_issued[i] = CarryTimes(prev, steps)
                /\ \A k \in 1..(steps - 1) : CarryTimes(prev, k) \in gen_protected
                /\ \A d \in NearCodes(prev) \cup NearCodes(gen_issued[i]) :
                      (CodeLess(prev, d) /\ CodeLess(d, gen_issued[i]))
                          => d \in gen_protected

\* C12's case: both codes after the previous one are reserved, and the third
\* increment gives the result
C12_Witness ==
    /\ gen_input = <<"a">>
    /\ gen_protected = { <<"b">>, <<"c">> }
    /\ Len(gen_issued) >= 1
    /\ gen_issued[1] = <<"d">>
    /\ increment_steps(gen_input, gen_protected) = 3

\* C18: with no reserved set the first string returned is 'a' for an absent
\* or empty previous code, 'b' for 'a', 'A' for 'z', 'aa' for '9', 'abA' for
\* 'abz' and 'aaaaa' for '9999'.
C18_WorkedExamples ==
    (gen_protected = {} /\ Len(gen_issued) >= 1) =>
        /\ gen_input = None => gen_issued[1] = <<"a">>
        /\ gen_input = <<>> => gen_issued[1] = <<"a">>
        /\ gen_input = <<"a">> => gen_issued[1] = <<"b">>
        /\ gen_input = <<"z">> => gen_issued[1] = <<"A">>
        /\ gen_input = <<"9">> => gen_issued[1] = <<"a","a">>
        /\ gen_input = <<"a","b","z">> => gen_issued[1] = <<"a","b","A">>
        /\ gen_input = <<"9","9","9","9">> => gen_issued[1] = <<"a","a","a","a","a">>

\* C18's case: the call on '9999'
C18_Witness ==
    /\ gen_protected = {}
    /\ gen_input = <<"9","9","9","9">>
    /\ Len(gen_issued) >= 1
    /\ gen_issued[1] = <<"a","a","a","a","a">>

-----------------------------------------------------------------------------
(* Properties of the validation block, checked under SpecAdmit *)

\* the stage that follows each stage when it does not fail
NextStage(pc) ==
    CASE pc = "begin" -> "strip"
      [] pc = "strip" -> "remove_non_ascii"
      [] pc = "remove_non_ascii" -> "validate_schema"
      [] pc = "validate_schema" -> "validate_url"
      [] pc = "validate_url" -> "check_404"
      [] pc = "check_404" -> "safe_check"
      [] pc = "safe_check" -> "self_check"
      [] pc = "self_check" -> "done"
      [] OTHER -> "none"

\* the rejections each stage can end the block with
OwnCategories(pc) ==
    CASE pc = "validate_schema" -> {"illegal-schema"}
      [] pc = "validate_url" -> {"not-reachable"}
      [] pc = "check_404" -> {"not-found"}
      [] pc = "safe_check" -> {"unsafe", "json-failure"}
      [] pc = "self_check" -> {"self-reference"}
      [] OTHER -> {}

Services(calls) == [i \in 1..Len(calls) |-> calls[i].service]

\* C7: every step runs the stage that follows the last one, and only while no
\* stage has failed; a stage that fails ends the block with a rejection of
\* its own; the fetch is issued by the reachability stage alone and the
\* reputation query by the reputation stage alone, after the fetch.
C7_StagesInOrder ==
    [][ /\ adm.error = NoError
        /\ adm.exception = ""
        /\ adm'.pc \in {NextStage(adm.pc), "done", "failed"}
        /\ adm'.error # NoError =>
              /\ adm'.pc = "done"
              /\ adm'.error.category \in OwnCategories(adm.pc)
        /\ Services(adm'.calls) =
              Services(adm.calls) \o
                 (CASE adm.pc = "validate_url" -> <<"fetch">>
                    [] adm.pc = "safe_check" -> <<"wot">>
                    [] OTHER -> <<>>)
        /\ Services(adm'.calls) \in {<<>>, <<"fetch">>, <<"fetch", "wot">>}
      ]_vars

\* C7's case: a URL whose fetch answered 404 is rejected with the fetch as
\* the only outbound call
C7_Witness ==
    /\ adm.pc = "done"
    /\ adm.error.category = "not-found"
    /\ Services(adm.calls) = <<"fetch">>
    /\ adm_wot = NoCall

\* the scheme token of a URL: what precedes the first '://', or, with no
\* '://', what precedes a ':' that is the first punctuation character
SchemeToken(url) ==
    LET seps == {i \in 1..Len(url) - 2 :
                    url[i] = ":" /\ url[i + 1] = "/" /\ url[i + 2] = "/"}
        puncts == {i \in 1..Len(url) : url[i] \in punctuation}
    IN  IF seps # {}
        THEN SubSeq(url, 1, (CHOOSE i \in seps : \A j \in seps : i <= j) - 1)
        ELSE IF \E i \in puncts : url[i] = ":" /\ \A j \in puncts : i <= j
        THEN SubSeq(url, 1, (CHOOSE i \in puncts : \A j \in puncts : i <= j) - 1)
        ELSE <<>>

\* C8: the schema stage prepends 'http://' when the URL has no scheme token,
\* leaves the URL as it is when the token is exactly 'http' or 'https', and
\* rejects with illegal-schema on any other token.
C8_SchemaValidation ==
    [][ adm.pc = "validate_schema" =>
          LET token == SchemeToken(adm.long_url)
          IN  IF token = <<>>
              THEN /\ adm'.pc = "validate_url"
                   /\ adm'.error = NoError
                   /\ adm'.long_url = <<"h","t","t","p",":","/","/">> \o adm.long_url
              ELSE IF token = <<"h","t","t","p">> \/ token = <<"h","t","t","p","s">>
              THEN /\ adm'.pc = "validate_url"
                   /\ adm'.error = NoError
                   /\ adm'.long_url = adm.long_url
              ELSE /\ adm'.pc = "done"
                   /\ adm'.error.category = "illegal-schema"
                   /\ ~adm'.url_is_safe
      ]_vars

\* C8's case: 'HTTP' in upper case is rejected as an illegal schema
C8_Witness ==
    /\ adm.pc = "done"
    /\ adm.error = [category |-> "illegal-schema", detail |-> <<"H","T","T","P">>]

\* the reputation stage let the URL through
PassedSafeCheck ==
    /\ adm.exception = ""
    /\ \/ adm.pc = "self_check" /\ adm.url_is_safe /\ adm.error = NoError
       \/ adm.pc = "done" /\ adm.url_is_safe /\ adm.error = NoError
       \/ adm.pc = "done" /\ adm.error.category = "self-reference"

\* the reputation answer parses but carries no category data: no member at
\* all, or a first member without 'categories'
NoCategoryData(wot) ==
    /\ wot.kind = "json"
    /\ wot.top = "object"
    /\ wot.hosts = <<>> \/ ~wot.hosts[1].has_categories

\* C6: when the reputation service is unreachable, or its answer is
\* unparseable or malformed, the stage lets the URL through: it neither
\* rejects the URL nor fails the request.
C6_FailOpen ==
    (adm_wot # NoCall /\ (adm_wot.kind \in {"unreachable", "unparseable"}
                          \/ NoCategoryData(adm_wot)))
    => PassedSafeCheck

\* C6 as amended: an answer that parses but carries no category data lets the
\* URL through; an unparseable answer rejects the URL (the JSON failure
\* warning); an unreachable service fails the request with an exception no
\* handler catches.
C6_FailOpenOnMissingData ==
    adm_wot # NoCall =>
        /\ NoCategoryData(adm_wot) => PassedSafeCheck
        /\ adm_wot.kind = "unparseable" =>
              /\ adm.pc = "done"
              /\ adm.error.category = "json-failure"
              /\ ~adm.url_is_safe
        /\ adm_wot.kind = "unreachable" =>
              /\ adm.pc = "failed"
              /\ adm.exception = "ConnectionError"

\* C6's case: an answer with no member at all, and the URL admitted
C6_Witness ==
    /\ adm_wot # NoCall
    /\ adm_wot.kind = "json" /\ adm_wot.top = "object" /\ adm_wot.hosts = <<>>
    /\ adm.pc = "done"
    /\ adm.url_is_safe
    /\ adm.error = NoError

\* the category codes the reputation stage recognizes
RecognizedCodes == {101, 103, 104, 105, 203, 204, 205, 206}

\* the name of each recognized category, in lower case
LowerCaseName(code) ==
    CASE code = 101 -> <<"m","a","l","w","a","r","e"," ","o","r"," ","v","i","r","u","s","e","s">>
      [] code = 103 -> <<"p","h","i","s","h","i","n","g"," ","a","t","t","e","m","p","t","s">>
      [] code = 104 -> <<"s","c","a","m","s">>
      [] code = 105 -> <<"p","o","t","e","n","t","i","a","l","l","y"," ","i","l","l","e","g","a","l"," ","e","l","e","m","e","n","t","s">>
      [] code = 203 -> <<"s","u","s","p","i","c","i","o","u","s"," ","e","l","e","m","e","n","t","s">>
      [] code = 204 -> <<"h","a","t","e",","," ","d","i","s","c","r","i","m","i","n","a","t","i","o","n">>
      [] code = 205 -> <<"s","p","a","m">>
      [] code = 206 -> <<"p","o","t","e","n","t","i","a","l","l","y"," ","u","n","w","a","n","t","e","d"," ","p","r","o","g","r","a","m","s">>

\* texts joined by a comma and a space
RECURSIVE CommaJoined(_)
CommaJoined(texts) ==
    IF texts = <<>> THEN <<>>
    ELSE IF Len(texts) = 1 THEN texts[1]
    ELSE texts[1] \o <<",", " ">> \o CommaJoined(Tail(texts))

\* the reputation answer carries category codes for the host, one at least
\* and all of them recognized
RecognizedCategories(wot) ==
    /\ wot.kind = "json"
    /\ wot.top = "object"
    /\ wot.hosts # <<>>
    /\ wot.hosts[1].has_categories
    /\ wot.hosts[1].categories # <<>>
    /\ \A i \in 1..Len(wot.hosts[1].categories) :
          /\ IsDigits(wot.hosts[1].categories[i])
          /\ int_str(wot.hosts[1].categories[i]) \in RecognizedCodes

StartsWith(text, prefix) ==
    Len(prefix) <= Len(text) /\ SubSeq(text, 1, Len(prefix)) = prefix

\* C14: the self-reference stage rejects the URL exactly when the URL starts
\* with the service's own URL and is not equal to it; any other URL passes
\* the stage.
C14_SelfReference ==
    [][ adm.pc = "self_check" =>
          IF StartsWith(adm.long_url, request_url) /\ adm.long_url # request_url
          THEN adm'.pc = "done" /\ adm'.error.category = "self-reference"
          ELSE adm'.pc = "done" /\ adm'.error = NoError /\ adm'.url_is_safe
      ]_vars

\* C9: a transport failure rejects with not-reachable; after a fetch that
\* succeeded the URL is rejected with not-found exactly when the status code
\* is 404, whatever else the response holds.
C9_StatusCodeDecides ==
    /\ (adm_fetch # NoCall /\ adm_fetch.kind = "exception") =>
          adm.error.category = "not-reachable"
    /\ (adm_fetch # NoCall /\ adm_fetch.kind = "response" /\ adm.pc # "check_404") =>
          (adm.error.category = "not-found" <=> adm_fetch.status_code = 404)

-----------------------------------------------------------------------------
(* Properties of the handlers, one request at a time, checked under Spec *)

Rows(tbl) == { tbl[i] : i \in 1..Len(tbl) }

\* the last request was a main_page request whose URL passed the validation
Admitted ==
    /\ resp.handler = "main_page"
    /\ resp.arg # <<>>
    /\ resp.error = NoError
    /\ resp.long_url = resp.arg

\* C3: an admitted URL that already has a record gets that record's short
\* code and leaves the table as it was; no two rows hold the same long URL.
C3_Idempotent ==
    /\ (Admitted /\ \E r \in Rows(resp.before) : r.long_url = resp.arg) =>
          /\ table = resp.before
          /\ resp.status = 200
          /\ \A r \in Rows(resp.before) :
                r.long_url = resp.arg => resp.short_url = request_url \o r.short_url
    /\ \A i, j \in 1..Len(table) :
          table[i].long_url = table[j].long_url => i = j

\* C3's case: a URL admitted earlier (it is in no seed table) is submitted
\* again
C3_Witness ==
    /\ Admitted
    /\ resp.arg = <<"h","t","t","p",":","/","/","h","/","p">>
    /\ \E r \in Rows(resp.before) :
          r.long_url = resp.arg /\ resp.short_url = request_url \o r.short_url
    /\ table = resp.before

\* C5: resolving a code that has a record answers with that record's long URL
\* and adds one to that record's hits, every other row unchanged; resolving a
\* code with no record answers not-found and changes no row.
C5_Resolution ==
    resp.handler = "destination_redirect" =>
        IF \E r \in Rows(resp.before) : r.short_url = resp.arg
        THEN /\ resp.status = 302
             /\ \A r \in Rows(resp.before) :
                   r.short_url = resp.arg => resp.long_url = r.long_url
             /\ Len(table) = Len(resp.before)
             /\ \A i \in 1..Len(table) :
                   table[i] = IF resp.before[i].short_url = resp.arg
                              THEN [resp.before[i] EXCEPT !.hits = @ + 1]
                              ELSE resp.before[i]
        ELSE /\ resp.status = 404
             /\ table = resp.before

\* C5's case: a stored code is resolved while another row is in the table
C5_Witness ==
    /\ resp.handler = "destination_redirect"
    /\ resp.status = 302
    /\ Len(table) >= 2
    /\ \E i \in 1..Len(table) :
          /\ table[i].short_url = resp.arg
          /\ table[i].hits = resp.before[i].hits + 1

\* the rejections the validation block can end with
Rejections ==
    {"illegal-schema", "not-reachable", "not-found", "unsafe", "json-failure",
     "self-reference"}

\* C15: a main_page request whose URL is rejected, at whatever stage, leaves
\* the table as it was: no row is inserted and the latest row, from which the
\* next code is generated, is the same.
C15_RejectionKeepsStore ==
    [][ (resp'.handler = "main_page" /\ resp'.error.category \in Rejections) =>
          /\ table' = table
          /\ resp'.before = table
          /\ select_latest(table') = select_latest(table)
          /\ resp'.short_url = <<>>
      ]_vars

\* C15's case: a URL of the service itself is rejected while the table has
\* rows
C15_Witness ==
    /\ resp.handler = "main_page"
    /\ resp.error.category = "self-reference"
    /\ Len(table) >= 2
    /\ table = resp.before

\* C16: a row, once in the table, stays, with its id, code and long URL; a
\* new row starts with 0 hits; a row's hits never decrease, and they change
\* only by one, in a step that resolves that row's code: admissions (new or
\* duplicate) and reverse look-ups leave every row's hits as they were.
C16_RecordsImmutable ==
    [][ /\ Len(table') >= Len(table)
        /\ \A i \in 1..Len(table) :
              /\ table'[i].id = table[i].id
              /\ table'[i].short_url = table[i].short_url
              /\ table'[i].long_url = table[i].long_url
              /\ table'[i].hits >= table[i].hits
              /\ table'[i].hits # table[i].hits =>
                    /\ table'[i].hits = table[i].hits + 1
                    /\ resp'.handler = "destination_redirect"
                    /\ resp'.arg = table[i].short_url
        /\ \A i \in (Len(table) + 1)..Len(table') : table'[i].hits = 0
        /\ resp'.handler \in {"main_page", "reverse_page"} =>
              \A i \in 1..Len(table) : table'[i].hits = table[i].hits
      ]_vars

\* C16's case: a reverse look-up has found a row that was resolved before,
\* and the table is as it was
C16_Witness ==
    /\ resp.handler = "reverse_page"
    /\ resp.error = NoError
    /\ resp.long_url # <<>>
    /\ table = resp.before
    /\ \E i \in 1..Len(table) :
          table[i].short_url = resp.arg /\ table[i].hits >= 1

\* the validation block let the URL of the last main_page request through
\* (the store part then answered, or failed)
PassedValidation ==
    /\ resp.handler = "main_page"
    /\ resp.arg # <<>>
    /\ Admitted \/ resp.error.category = "TypeError"

\* C19: on an empty table, a main_page request whose URL passes the
\* validation inserts the row (code 'a', the URL, 0 hits) and answers with
\* the short URL of 'a'.
C19_FirstAdmission ==
    (PassedValidation /\ resp.before = <<>>) =>
        /\ resp.status = 200
        /\ resp.short_url = request_url \o <<"a">>
        /\ Len(table) = 1
        /\ table[1].short_url = <<"a">>
        /\ table[1].long_url = resp.arg
        /\ table[1].hits = 0

\* C20: on a table that has rows, after any sequence of requests handled one
\* at a time, the codes grow with the ids (so the row of the highest id,
\* read as the latest, holds the greatest code), no two rows hold the same
\* code, and no row's code is a protected path.
C20_CodesGrowWithIds ==
    table # <<>> =>
        /\ \A i, j \in 1..Len(table) :
              table[i].id < table[j].id =>
                  CodeLess(table[i].short_url, table[j].short_url)
        /\ \A i, j \in 1..Len(table) :
              table[i].short_url = table[j].short_url => i = j
        /\ \A i \in 1..Len(table) : table[i].short_url \notin protected_paths

\* C20's case: the code after 'reversd' was issued, and one more after it
C20_Witness ==
    /\ Len(table) = 3
    /\ table[1].short_url = <<"r","e","v","e","r","s","d">>
    /\ table[2].short_url = <<"r","e","v","e","r","s","f">>
    /\ table[3].short_url = <<"r","e","v","e","r","s","g">>

-----------------------------------------------------------------------------
(* Properties of the handlers with requests in flight, checked under SpecConc *)

\* C4: whatever the interleaving of the admissions of different URLs, no two
\* rows of different long URLs hold the same short code.
C4_NoDuplicateCode ==
    \A i, j \in 1..Len(table) :
        (i # j /\ table[i].long_url # table[j].long_url)
            => table[i].short_url # table[j].short_url

\* C17: whatever the interleaving of the requests in flight (resolutions,
\* admissions, reverse look-ups, all on the one cursor), a finished request
\* for /<short_url> whose SELECT found the row of its code has answered with
\* the redirect (reached only through the UPDATE that adds one hit to that
\* row) to the long URL of that row, never with another value.
C17_ConcurrentResolution ==
    \A w \in Workers :
        ( /\ procs[w].handler = "destination_redirect"
          /\ procs[w].pc = "done"
          /\ procs[w].selected # <<>> ) =>
            /\ procs[w].status = 302
            /\ procs[w].long_url = procs[w].selected[1].long_url

=============================================================================
